---- MODULE Spec2Model ----
(***************************************************************************)
(* Session lifecycle and clip pipeline of obs_fog_server.                  *)
(*                                                                         *)
(*   src/app/routers/hooks.py      on_publish / on_publish_done            *)
(*   src/app/services/stream.py    StreamService (sessions, clip jobs)     *)
(*   src/app/models/pc.py          PC, StreamSession, ClipJob              *)
(*   src/worker_service/main.py    main_loop / process_clip                *)
(*                                                                         *)
(* Every database statement that is followed by a commit is one atomic     *)
(* step; the awaits between them are the points where other requests and   *)
(* workers interleave.  The rows of users and pcs are written by none of   *)
(* these operations, so a handler's lookup of the source is part of its    *)
(* first step, and the notification sent after the last commit (which      *)
(* touches no row and raises nothing) is part of its last.  The requests   *)
(* in flight are a bag: two requests at the same point with the same       *)
(* locals are interchangeable.  Python None and the empty string are both  *)
(* falsy in every test the code makes on a string, and both are the empty  *)
(* string here; a null integer column or foreign key is 0 (ids and         *)
(* timestamps start at 1).                                                 *)
(***************************************************************************)
EXTENDS Integers, Sequences, FiniteSets, Bags, TLC

VARIABLES
    users,      \* table users:            id -> row
    pcs,        \* table pcs:              id -> row
    sessions,   \* table stream_sessions:  id -> row (a sequence; the id is the index)
    jobs,       \* table clip_jobs:        id -> row (a sequence; the id is the index)
    hook,       \* the hook requests in flight: a bag of request records
    calls,      \* number of start / stop notifications received so far
    config,     \* the environment of worker_service
    files,      \* VIDEOS_DIR: session id -> the clip file clip_session_<id>.mp4
    worker,     \* the worker_service processes, one record per worker
    claimed,    \* job id -> the workers that marked it PROCESSING and are still
                \* inside process_clip for it
    telegram,   \* the calls of send_telegram_video / send_telegram_message each
                \* worker made in the process_clip it ran last
    listing,    \* worker -> the files its running cleanup_old_clips got from
                \* glob and has not looked at yet
    backend,    \* src/worker, src/api: "postgres" or "sqlite" (DB_REF)
    settings,   \* table settings of that database
    streams,    \* its table streams:     stream key -> is_live
    jobs_table, \* its table jobs:        id -> row (a sequence; the id is the index)
    locks,      \* the locks held in that database: [by, row], row 0 being
                \* the write lock of the SQLite file
    legacy,     \* the processes of src/worker (or the callers of
                \* job_claim_next), one record per process
    outputs,    \* DATA_DIR/out: job id -> the mp4 built for the job
    hls,        \* DATA_DIR/hls: stream key -> the media segments on disk
    claims,     \* job id -> how many times a claim returned the job
    approval_required,  \* src/obs: the setting APPROVAL_REQUIRED
    steam_accounts,     \* table steam_accounts: id -> row
    steam_leases,       \* table steam_leases:   id -> row (a sequence; the id is
                        \* the index)
    lease_req           \* the create-lease requests: handler -> request record

dbvars == <<users, pcs, sessions, jobs>>
hookvars == <<hook, calls>>
workervars == <<config, files, worker, claimed, telegram, listing>>
legacyvars == <<backend, settings, streams, jobs_table, locks, legacy, outputs, hls, claims>>
othervars == <<approval_required, steam_accounts, steam_leases, lease_req>>

-----------------------------------------------------------------------------
(* Bounds *)

NumHandlers == 2        \* hook requests that can be in flight at once
MaxPublish == 3         \* start notifications per behaviour
MaxPublishDone == 2     \* stop notifications per behaviour
NumWorkers == 2         \* worker_service processes
NumJobs == 2            \* pending clip jobs the workers start with

Workers == 1..NumWorkers

-----------------------------------------------------------------------------
(* Values *)

NoneStr == ""
NULL == 0

\* a null size_bytes (a clip can have 0 bytes)
NoSize == -1

\* SessionStatus
LIVE == "live"
DONE == "done"
ERROR == "error"

\* ClipStatus
PENDING == "pending"
PROCESSING == "processing"
SENT == "sent"
STORED == "stored"
TOO_BIG == "too_big"
FAILED == "failed"

TerminalStatuses == {SENT, STORED, TOO_BIG, FAILED}

\* the note on_publish passes to end_session
ReplacedNote == "Replaced by new stream"

\* stream keys: generate_stream_key() yields 43 characters
Key1 == "k1_Zm9nLXNlcnZlci1zdHJlYW0ta2V5LTAwMDAwMDAx"
Key2 == "k2_Zm9nLXNlcnZlci1zdHJlYW0ta2V5LTAwMDAwMDAy"
KeyUnknown == "kx_Zm9nLXNlcnZlci1zdHJlYW0ta2V5LXVua25vd24w"
ShortName == "live"

PcIds == {1, 2}

-----------------------------------------------------------------------------
(* Account and source rows *)

\* datetime.now(): the clock advances with every notification received
now == 1 + calls.on_publish + calls.on_publish_done

\* is_trial_expired that takes a trial without an end date as running
is_trial_expired_needs_end(u) ==
    IF u.role /= "trial" THEN FALSE
    ELSE IF u.trial_ends_at /= NULL THEN u.trial_ends_at <= now
    ELSE FALSE

\* User.is_trial_expired
is_trial_expired(u) ==
    IF u.role /= "trial" THEN FALSE
    ELSE IF u.trial_ends_at /= NULL THEN u.trial_ends_at <= now
    ELSE TRUE

UserOk == [role |-> "obs", is_active |-> TRUE, is_approved |-> TRUE,
           trial_ends_at |-> NULL, tg_chat_id |-> 1001]

UserNoChat == [role |-> "premium", is_active |-> TRUE, is_approved |-> TRUE,
               trial_ends_at |-> NULL, tg_chat_id |-> NULL]

PcRow(uid, k, active) == [user_id |-> uid, stream_key |-> k, is_active |-> active]

\* the end of the trial of an account whose trial runs out after the second
\* notification
TrialEnd == 3

\* the session of a source that was broadcasting when it, or its owner, was
\* disabled
Broadcasting == <<[pc_id |-> 2, started_at |-> 1, ended_at |-> NULL,
                   status |-> LIVE, note |-> NoneStr]>>

\* the second source, its owner and its sessions: in order; or on a trial
\* that runs out; or, with a broadcast going on, the source disabled, or the
\* owner not approved, not active, or on a trial without an end date
SecondSources ==
    { [pc |-> PcRow(2, Key2, TRUE), user |-> UserNoChat, sessions |-> <<>>],
      [pc |-> PcRow(2, Key2, TRUE), sessions |-> <<>>,
       user |-> [UserNoChat EXCEPT !.role = "trial", !.trial_ends_at = TrialEnd]],
      [pc |-> PcRow(2, Key2, FALSE), user |-> UserNoChat, sessions |-> Broadcasting],
      [pc |-> PcRow(2, Key2, TRUE), sessions |-> Broadcasting,
       user |-> [UserNoChat EXCEPT !.is_approved = FALSE]],
      [pc |-> PcRow(2, Key2, TRUE), sessions |-> Broadcasting,
       user |-> [UserNoChat EXCEPT !.is_active = FALSE]],
      [pc |-> PcRow(2, Key2, TRUE), sessions |-> Broadcasting,
       user |-> [UserNoChat EXCEPT !.role = "trial"]] }

\* a lookup that falls back to the first source
get_pc_by_stream_key_or_first(stream_key) ==
    IF \E p \in PcIds : pcs[p].stream_key = stream_key
    THEN CHOOSE p \in PcIds : pcs[p].stream_key = stream_key
    ELSE 1

\* StreamService.get_pc_by_stream_key: the id of the PC with that key, or NULL
\* (pcs.stream_key is unique)
get_pc_by_stream_key(stream_key) ==
    IF \E p \in PcIds : pcs[p].stream_key = stream_key
    THEN CHOOSE p \in PcIds : pcs[p].stream_key = stream_key
    ELSE NULL

-----------------------------------------------------------------------------
(* extract_stream_key *)

\* a connection URL after urlparse / parse_qs: the values of its query
\* parameter "key" (blank values are dropped by parse_qs) and the parts of
\* path.strip("/").split("/")
NoTcurl == [present |-> FALSE, query_key |-> <<>>, path_parts |-> <<>>]
Tcurl(qk, parts) == [present |-> TRUE, query_key |-> qk, path_parts |-> parts]

extract_stream_key(name, key, tcurl) ==
    IF name /= NoneStr /\ Len(name) > 10 THEN name
    ELSE IF key /= NoneStr THEN key
    ELSE IF tcurl.present /\ tcurl.query_key /= <<>> THEN tcurl.query_key[1]
    ELSE IF tcurl.present /\ Len(tcurl.path_parts) > 1
         THEN tcurl.path_parts[Len(tcurl.path_parts)]
    ELSE name

Names == {NoneStr, ShortName, Key1, Key2, KeyUnknown}
KeyParams == {NoneStr, Key1, KeyUnknown}
Tcurls == {NoTcurl, Tcurl(<<Key2>>, <<"live">>), Tcurl(<<>>, <<"live", Key1>>),
           Tcurl(<<>>, <<"live">>)}

-----------------------------------------------------------------------------
(* StreamService: sessions and clip jobs *)

LiveSessions(pc_id) ==
    {s \in DOMAIN sessions : sessions[s].pc_id = pc_id /\ sessions[s].status = LIVE}

\* get_active_session without the filter on the status
get_active_session_any_status(pc_id) ==
    LET found == {s \in DOMAIN sessions : sessions[s].pc_id = pc_id}
    IN  IF Cardinality(found) > 1 THEN [raised |-> TRUE, id |-> NULL]
        ELSE IF found = {} THEN [raised |-> FALSE, id |-> NULL]
        ELSE [raised |-> FALSE, id |-> CHOOSE s \in found : TRUE]

\* StreamService.get_active_session: scalar_one_or_none() returns the row,
\* None when there is no row, and raises MultipleResultsFound otherwise
get_active_session(pc_id) ==
    LET live == LiveSessions(pc_id)
    IN  IF Cardinality(live) > 1 THEN [raised |-> TRUE, id |-> NULL]
        ELSE IF live = {} THEN [raised |-> FALSE, id |-> NULL]
        ELSE [raised |-> FALSE, id |-> CHOOSE s \in live : TRUE]

\* start_session that stamps ended_at on the new row
start_session_with_ended_at(pc_id) ==
    Append(sessions, [pc_id |-> pc_id, started_at |-> now, ended_at |-> now,
                      status |-> LIVE, note |-> NoneStr])

\* StreamService.start_session: INSERT and commit
start_session(pc_id) ==
    Append(sessions, [pc_id |-> pc_id, started_at |-> now, ended_at |-> NULL,
                      status |-> LIVE, note |-> NoneStr])

\* end_session that leaves ended_at alone
end_session_without_ended_at(s, status, note) ==
    [sessions EXCEPT ![s] = [@ EXCEPT !.status = status,
                                      !.note = IF note /= NoneStr THEN note ELSE @]]

\* StreamService.end_session: UPDATE ... WHERE id = :id and commit; the row is
\* written whatever its committed status is by then
end_session(s, status, note) ==
    [sessions EXCEPT ![s] = [@ EXCEPT !.ended_at = now,
                                      !.status = status,
                                      !.note = IF note /= NoneStr THEN note ELSE @]]

\* clip_jobs without the unique constraint on session_id
clip_jobs_session_id_not_unique(session_id) == TRUE

\* ClipJob.session_id is unique: an INSERT of a second row for the session
\* fails with IntegrityError
clip_jobs_session_id_unique(session_id) ==
    ~ \E j \in DOMAIN jobs : jobs[j].session_id = session_id

\* StreamService.create_clip_job: INSERT and commit
create_clip_job(session_id) ==
    Append(jobs, [session_id |-> session_id, status |-> PENDING,
                  result_path |-> NULL, error |-> NoneStr, size_bytes |-> NoSize,
                  created_at |-> now])

JobsOf(session_id) == {j \in DOMAIN jobs : jobs[j].session_id = session_id}

-----------------------------------------------------------------------------
(* Hook requests *)

NewRequest(op) == [op |-> op, phase |-> "begin", stream_key |-> NoneStr,
                   pc_id |-> NULL, session |-> NULL, resp |-> 0]

InFlight == BagToSet(hook)

\* a request arrives
Accept(req) == hook' = hook (+) SetToBag({req})

\* the request req continues as req2
Continue(req, req2) == hook' = (hook (-) SetToBag({req})) (+) SetToBag({req2})

Goto(req, phase) == Continue(req, [req EXCEPT !.phase = phase])

\* the handler returns PlainTextResponse(code), or an exception leaves it and
\* the server answers 500
Response(req, code) ==
    [NewRequest(req.op) EXCEPT !.phase = "respond", !.resp = code,
                               !.stream_key = req.stream_key]

Respond(req, code) == Continue(req, Response(req, code))

\* on_publish up to its second await: the key is extracted, the source is
\* looked up, the source and its owner are checked
on_publish_begin ==
    /\ BagCardinality(hook) < NumHandlers
    /\ calls.on_publish < MaxPublish
    /\ calls' = [calls EXCEPT !.on_publish = @ + 1]
    /\ \E name \in Names, key \in KeyParams, tcurl \in Tcurls :
          LET stream_key == extract_stream_key(name, key, tcurl)
              pc == get_pc_by_stream_key(stream_key)
              req == [NewRequest("on_publish") EXCEPT !.stream_key = stream_key]
          IN  IF stream_key = NoneStr THEN Accept(Response(req, 403))
              ELSE IF pc = NULL THEN Accept(Response(req, 403))
              ELSE IF \/ ~ pcs[pc].is_active
                      \/ ~ users[pcs[pc].user_id].is_approved
                      \/ ~ users[pcs[pc].user_id].is_active
                      \/ is_trial_expired(users[pcs[pc].user_id])
                   THEN Accept(Response(req, 403))
              ELSE Accept([req EXCEPT !.phase = "get_active_session", !.pc_id = pc])
    /\ UNCHANGED <<dbvars, workervars, legacyvars, othervars>>

\* on_publish: the read of the existing live session
on_publish_get_active_session(req) ==
    /\ req.op = "on_publish"
    /\ req.phase = "get_active_session"
    /\ LET existing == get_active_session(req.pc_id)
       IN  IF existing.raised THEN Respond(req, 500)
           ELSE IF existing.id /= NULL
                THEN Continue(req, [req EXCEPT !.phase = "end_session",
                                               !.session = existing.id])
                ELSE Goto(req, "start_session")
    /\ UNCHANGED <<dbvars, calls, workervars, legacyvars, othervars>>

\* on_publish: the existing session is ended
on_publish_end_session(req) ==
    /\ req.op = "on_publish"
    /\ req.phase = "end_session"
    /\ sessions' = end_session(req.session, ERROR, ReplacedNote)
    /\ Goto(req, "start_session")
    /\ UNCHANGED <<users, pcs, jobs, calls, workervars, legacyvars, othervars>>

\* on_publish: the new session is created, the owner is notified
\* (TelegramService.send_message returns None on failure) and the stream is
\* allowed
on_publish_start_session(req) ==
    /\ req.op = "on_publish"
    /\ req.phase = "start_session"
    /\ sessions' = start_session(req.pc_id)
    /\ Respond(req, 200)
    /\ UNCHANGED <<users, pcs, jobs, calls, workervars, legacyvars, othervars>>

\* on_publish_done up to its second await
on_publish_done_begin ==
    /\ BagCardinality(hook) < NumHandlers
    /\ calls.on_publish_done < MaxPublishDone
    /\ calls' = [calls EXCEPT !.on_publish_done = @ + 1]
    /\ \E name \in Names, key \in KeyParams :
          LET stream_key == extract_stream_key(name, key, NoTcurl)
              pc == get_pc_by_stream_key(stream_key)
              req == [NewRequest("on_publish_done") EXCEPT !.stream_key = stream_key]
          IN  IF stream_key = NoneStr THEN Accept(Response(req, 200))
              ELSE IF pc = NULL THEN Accept(Response(req, 200))
              ELSE Accept([req EXCEPT !.phase = "get_active_session", !.pc_id = pc])
    /\ UNCHANGED <<dbvars, workervars, legacyvars, othervars>>

\* on_publish_done: the read of the live session
on_publish_done_get_active_session(req) ==
    /\ req.op = "on_publish_done"
    /\ req.phase = "get_active_session"
    /\ LET session == get_active_session(req.pc_id)
       IN  IF session.raised THEN Respond(req, 500)
           ELSE IF session.id = NULL
                THEN Respond(req, 200)
           ELSE Continue(req, [req EXCEPT !.phase = "end_session",
                                          !.session = session.id])
    /\ UNCHANGED <<dbvars, calls, workervars, legacyvars, othervars>>

\* on_publish_done: the session is ended
on_publish_done_end_session(req) ==
    /\ req.op = "on_publish_done"
    /\ req.phase = "end_session"
    /\ sessions' = end_session(req.session, DONE, NoneStr)
    /\ Goto(req, "create_clip_job")
    /\ UNCHANGED <<users, pcs, jobs, calls, workervars, legacyvars, othervars>>

\* on_publish_done: the clip job is created, the owner is notified and the
\* request is answered; the IntegrityError of a second job for the session
\* is not caught and the request fails
on_publish_done_create_clip_job(req) ==
    /\ req.op = "on_publish_done"
    /\ req.phase = "create_clip_job"
    /\ IF clip_jobs_session_id_unique(req.session)
       THEN /\ jobs' = create_clip_job(req.session)
            /\ Continue(req, [Response(req, 200) EXCEPT !.session = req.session])
       ELSE /\ Continue(req, [Response(req, 500) EXCEPT !.session = req.session])
            /\ UNCHANGED jobs
    /\ UNCHANGED <<users, pcs, sessions, calls, workervars, legacyvars, othervars>>

\* the response reaches the ingestion server and the request is over
reply(req) ==
    /\ req.phase = "respond"
    /\ hook' = hook (-) SetToBag({req})
    /\ UNCHANGED <<dbvars, calls, workervars, legacyvars, othervars>>

-----------------------------------------------------------------------------
(* worker_service *)

TELEGRAM_MAX_MB == 50
FetchLimit == 5

\* TELEGRAM_MAX_MB in bytes: size_mb = file_size / (1024 * 1024) is a division
\* by a power of two, exact in floating point, so size_mb <= TELEGRAM_MAX_MB
\* compares the byte counts
LimitBytes == config.max_mb * 1024 * 1024

\* a comparison that sends a clip of exactly the limit to the too-big branch
within_limit_strict(file_size) == file_size < LimitBytes

\* process_clip: size_mb <= TELEGRAM_MAX_MB
within_limit(file_size) == file_size <= LimitBytes

\* a worker that takes every answer of the file-send for a success
status_after_send_always_sent(success) == SENT

\* process_clip: the status after send_telegram_video returned
status_after_send(success) == IF success THEN SENT ELSE STORED

\* sizes of the file the muxer leaves
MuxSizes == {0, LimitBytes, LimitBytes + 1}

\* the muxer's outcomes: its exit code, whether it wrote the output file
\* (a failing run may leave an empty one), and the size of the file it wrote
MuxOutcomes ==
    {[returncode |-> 1, wrote |-> FALSE, size |-> 0],
     [returncode |-> 1, wrote |-> TRUE, size |-> 0],
     [returncode |-> 0, wrote |-> FALSE, size |-> 0]}
    \cup {[returncode |-> 0, wrote |-> TRUE, size |-> n] : n \in MuxSizes}

\* TELEGRAM_BOT_TOKEN set or not, AUTO_DELETE_AFTER_SEND on or off,
\* TELEGRAM_MAX_MB at its default or set to 1
Configs == {[token |-> TRUE, auto_delete |-> FALSE, max_mb |-> TELEGRAM_MAX_MB],
            [token |-> TRUE, auto_delete |-> TRUE, max_mb |-> 1],
            [token |-> FALSE, auto_delete |-> FALSE, max_mb |-> TELEGRAM_MAX_MB]}

NoFile == [exists |-> FALSE, size |-> 0, old |-> FALSE]

Min(a, b) == IF a < b THEN a ELSE b

\* ORDER BY created_at ASC (rows with equal created_at in id order)
RECURSIVE OrderByCreatedAt(_)
OrderByCreatedAt(S) ==
    IF S = {} THEN <<>>
    ELSE LET first == CHOOSE x \in S : \A y \in S :
                          \/ jobs[x].created_at < jobs[y].created_at
                          \/ jobs[x].created_at = jobs[y].created_at /\ x <= y
         IN  <<first>> \o OrderByCreatedAt(S \ {first})

\* a poll that orders the PENDING rows by created_at DESC
get_pending_jobs_newest_first ==
    LET pending == OrderByCreatedAt({j \in DOMAIN jobs : jobs[j].status = PENDING})
        newest == [i \in 1..Len(pending) |-> pending[Len(pending) + 1 - i]]
    IN  SubSeq(newest, 1, Min(FetchLimit, Len(newest)))

\* a poll that filters on the wrong status
get_pending_jobs_wrong_status ==
    LET pending == OrderByCreatedAt({j \in DOMAIN jobs : jobs[j].status = PROCESSING})
    IN  SubSeq(pending, 1, Min(FetchLimit, Len(pending)))

\* get_pending_jobs: a plain SELECT of the oldest PENDING rows
get_pending_jobs ==
    LET pending == OrderByCreatedAt({j \in DOMAIN jobs : jobs[j].status = PENDING})
    IN  SubSeq(pending, 1, Min(FetchLimit, Len(pending)))

\* the owner of a job: job.session.pc.user
JobUser(j) == users[pcs[sessions[jobs[j].session_id].pc_id].user_id]

\* the job object of the worker's session once it is marked PROCESSING
Loaded == [status |-> PROCESSING, result_path |-> NULL, size_bytes |-> NoSize]

IdleWorker == [phase |-> "poll", queue |-> <<>>, job |-> Loaded]

\* db.commit() in process_clip: UPDATE clip_jobs SET <the attributes that
\* differ from the ones the session loaded> WHERE id = :id
commit(j, job, error) ==
    [jobs EXCEPT ![j] = [@ EXCEPT !.status = job.status,
                                  !.result_path = IF job.result_path /= Loaded.result_path
                                                  THEN job.result_path ELSE @,
                                  !.size_bytes = IF job.size_bytes /= Loaded.size_bytes
                                                 THEN job.size_bytes ELSE @,
                                  !.error = IF error /= NoneStr THEN error ELSE @]]

\* a call of send_telegram_video (kind "video") or send_telegram_message
\* (kind "message") made by worker w for job j, and what it returned
Sent(w, j, kind, ok) ==
    telegram' = telegram \cup {[worker |-> w, job |-> j, kind |-> kind, ok |-> ok]}

\* worker w moves on: the calls of its last process_clip are forgotten
Forget(w) == telegram' = {call \in telegram : call.worker /= w}

\* process_clip is over: main_loop goes on with the next job it fetched
NextJob(w) ==
    /\ worker' = [worker EXCEPT ![w] =
                    [phase |-> IF Len(worker[w].queue) > 1 THEN "process_clip"
                               ELSE "cleanup",
                     queue |-> Tail(worker[w].queue),
                     job |-> Loaded]]
    /\ claimed' = [claimed EXCEPT ![Head(worker[w].queue)] = @ \ {w}]

\* main_loop: the poll
main_loop_get_pending_jobs(w) ==
    /\ worker[w].phase = "poll"
    /\ LET fetched == get_pending_jobs
       IN  worker' = [worker EXCEPT ![w].queue = fetched,
                                    ![w].phase = IF fetched = <<>> THEN "cleanup"
                                                 ELSE "process_clip"]
    /\ UNCHANGED <<dbvars, hookvars, legacyvars, othervars, listing, config, files, claimed, telegram>>

\* process_clip: the fetched job is marked PROCESSING and committed
process_clip_begin(w) ==
    /\ worker[w].phase = "process_clip"
    /\ LET j == Head(worker[w].queue)
       IN  /\ jobs' = [jobs EXCEPT ![j].status = PROCESSING]
           /\ claimed' = [claimed EXCEPT ![j] = @ \cup {w}]
    /\ worker' = [worker EXCEPT ![w].phase = "ffmpeg", ![w].job = Loaded]
    /\ Forget(w)
    /\ UNCHANGED <<users, pcs, sessions, hookvars, legacyvars, othervars, listing, config, files>>

\* process_clip: the commit of PROCESSING raises. It stands before the try
\* block, so the exception leaves process_clip and the for loop of main_loop,
\* whose except branch logs it and goes to the sleep: the row is not
\* updated, the rest of the fetched jobs and the cleanup are skipped
process_clip_begin_raises(w) ==
    /\ worker[w].phase = "process_clip"
    /\ worker' = [worker EXCEPT ![w] = IdleWorker]
    /\ Forget(w)
    /\ UNCHANGED <<dbvars, hookvars, legacyvars, othervars, listing, config, files, claimed>>

\* process_clip: the muxer runs; its exit code and the output file decide
\* between the except branch, the commit of a stored clip, and a delivery
process_clip_ffmpeg(w) ==
    /\ worker[w].phase = "ffmpeg"
    /\ \E out \in MuxOutcomes :
          LET j == Head(worker[w].queue)
              path == jobs[j].session_id
              disk == IF out.wrote
                      THEN [files EXCEPT ![path] = [exists |-> TRUE, size |-> out.size,
                                                    old |-> FALSE]]
                      ELSE files
              job == [status |-> STORED, result_path |-> path,
                      size_bytes |-> disk[path].size]
          IN  /\ files' = disk
              /\ IF out.returncode /= 0
                 THEN /\ jobs' = commit(j, [worker[w].job EXCEPT !.status = FAILED],
                                        "FFmpeg failed")
                      /\ NextJob(w)
                 ELSE IF ~ disk[path].exists
                 THEN /\ jobs' = commit(j, [worker[w].job EXCEPT !.status = FAILED],
                                        "No such file or directory")
                      /\ NextJob(w)
                 ELSE IF JobUser(j).tg_chat_id /= NULL /\ config.token
                 THEN /\ worker' = [worker EXCEPT
                            ![w].job = job,
                            ![w].phase = IF within_limit(job.size_bytes)
                                         THEN "send_telegram_video"
                                         ELSE "send_telegram_message"]
                      /\ UNCHANGED <<jobs, claimed>>
                 ELSE /\ jobs' = commit(j, job, NoneStr)
                      /\ NextJob(w)
    /\ UNCHANGED <<users, pcs, sessions, hookvars, legacyvars, othervars, listing, config, telegram>>

\* process_clip: the clip is sent and the outcome committed;
\* send_telegram_video returns False on any failure (a file that is gone
\* included)
process_clip_send_telegram_video(w) ==
    /\ worker[w].phase = "send_telegram_video"
    /\ \E delivered \in BOOLEAN :
          LET j == Head(worker[w].queue)
              path == jobs[j].session_id
              success == delivered /\ files[path].exists
              job == [worker[w].job EXCEPT !.status = status_after_send(success)]
          IN  /\ Sent(w, j, "video", success)
              /\ IF success /\ config.auto_delete
                 THEN /\ files' = [files EXCEPT ![path] = NoFile]
                      /\ jobs' = commit(j, [job EXCEPT !.result_path = NULL], NoneStr)
                 ELSE /\ jobs' = commit(j, job, NoneStr)
                      /\ UNCHANGED files
    /\ NextJob(w)
    /\ UNCHANGED <<users, pcs, sessions, hookvars, legacyvars, othervars, listing, config>>

\* process_clip: the clip is too large; the owner is told so (process_clip
\* drops what send_telegram_message returns: the call is recorded with ok)
process_clip_send_telegram_message(w) ==
    /\ worker[w].phase = "send_telegram_message"
    /\ Sent(w, Head(worker[w].queue), "message", TRUE)
    /\ jobs' = commit(Head(worker[w].queue),
                      [worker[w].job EXCEPT !.status = TOO_BIG], NoneStr)
    /\ NextJob(w)
    /\ UNCHANGED <<users, pcs, sessions, hookvars, legacyvars, othervars, listing, config, files>>

\* cleanup_old_clips: the files older than the retention window are deleted
cleanup_old_clips ==
    [path \in DOMAIN files |-> IF files[path].exists /\ files[path].old
                               THEN NoFile ELSE files[path]]

\* main_loop: the periodic cleanup, when CLEANUP_INTERVAL has passed since
\* the last one, and the sleep
main_loop_cleanup(w) ==
    /\ worker[w].phase = "cleanup"
    /\ \E due \in BOOLEAN : files' = IF due THEN cleanup_old_clips ELSE files
    /\ worker' = [worker EXCEPT ![w] = IdleWorker]
    /\ Forget(w)
    /\ UNCHANGED <<dbvars, hookvars, legacyvars, othervars, listing, config, claimed>>

\* cleanup_old_clips, one file of the loop: stat and unlink; a file that is
\* younger than the window is left alone, and so is one that is missing by
\* now (stat raises, the except branch logs it and the loop goes on)
unlink_if_old_and_sent(path) ==
    [files EXCEPT ![path] = IF @.exists /\ @.old /\ jobs[path].status = SENT
                            THEN NoFile ELSE @]

unlink_if_old(path) ==
    [files EXCEPT ![path] = IF @.exists /\ @.old THEN NoFile ELSE @]

\* main_loop: the periodic cleanup is due or not; cleanup_old_clips: glob
\* lists the clip files of VIDEOS_DIR
main_loop_cleanup_glob(w) ==
    /\ worker[w].phase = "cleanup"
    /\ \E due \in BOOLEAN :
          IF due
          THEN /\ worker' = [worker EXCEPT ![w].phase = "cleanup_old_clips"]
               /\ listing' = [listing EXCEPT
                                ![w] = {path \in DOMAIN files : files[path].exists}]
          ELSE /\ worker' = [worker EXCEPT ![w] = IdleWorker]
               /\ UNCHANGED listing
    /\ Forget(w)
    /\ UNCHANGED <<dbvars, hookvars, legacyvars, othervars, config, files, claimed>>

cleanup_old_clips_file(w) ==
    /\ worker[w].phase = "cleanup_old_clips"
    /\ \E path \in listing[w] :
          /\ files' = unlink_if_old(path)
          /\ listing' = [listing EXCEPT ![w] = @ \ {path}]
    /\ UNCHANGED <<dbvars, hookvars, legacyvars, othervars, config, worker, claimed, telegram>>

\* cleanup_old_clips returns; main_loop sets last_cleanup and sleeps
cleanup_old_clips_return(w) ==
    /\ worker[w].phase = "cleanup_old_clips"
    /\ listing[w] = {}
    /\ worker' = [worker EXCEPT ![w] = IdleWorker]
    /\ UNCHANGED <<dbvars, hookvars, legacyvars, othervars, listing, config, files, claimed, telegram>>

\* time passes: a clip file gets older than CLIP_RETENTION_HOURS
file_ages(path) ==
    /\ files[path].exists
    /\ ~ files[path].old
    /\ files' = [files EXCEPT ![path].old = TRUE]
    /\ UNCHANGED <<dbvars, hookvars, legacyvars, othervars, listing, config, worker, claimed, telegram>>

-----------------------------------------------------------------------------
(* src/worker: the job queue of src/api and the worker that builds and      *)
(* sends the recording of a finished broadcast                              *)

TELEGRAM_LIMIT_BYTES == 50 * 1024 * 1024

JobIds == 1..NumJobs

\* the stream key of the job: the jobs alternate between the two sources
JobKey(j) == IF j % 2 = 1 THEN Key1 ELSE Key2

NoOutput == [exists |-> FALSE, size |-> 0]

IdleLegacy == [phase |-> "idle", job |-> NULL, auto_delete |-> FALSE,
               size |-> 0, outcome |-> NoneStr]

\* the rows another transaction holds a lock on
LockedByOthers(w) == {l.row : l \in {m \in locks : m.by /= w}}

\* the statement of w has to wait: the row is locked by another transaction,
\* or another connection holds the write lock of the SQLite file
MustWait(w, j) == LockedByOthers(w) \cap {0, j} /= {}

\* ORDER BY id ASC LIMIT 1 (NULL when there is no row)
FirstById(rows) ==
    IF rows = {} THEN NULL ELSE CHOOSE j \in rows : \A i \in rows : j <= i

\* SELECT * FROM jobs WHERE status='queued' ORDER BY id ASC LIMIT 1
first_queued ==
    FirstById({j \in DOMAIN jobs_table : jobs_table[j].status = "queued"})

\* the SELECT of the claim without its locking clause
first_queued_without_lock(w) == first_queued

\* SELECT id FROM jobs WHERE status='queued' ORDER BY id ASC FOR UPDATE SKIP
\* LOCKED LIMIT 1: the rows locked by another transaction are passed over
first_queued_skip_locked(w) ==
    FirstById({j \in DOMAIN jobs_table :
                  jobs_table[j].status = "queued" /\ j \notin LockedByOthers(w)})

\* _claim_next_job returned job j to w: main calls handle_job, which reads
\* the setting auto_delete
Returned(w, j) ==
    /\ claims' = [claims EXCEPT ![j] = Min(@ + 1, 2)]
    /\ legacy' = [legacy EXCEPT ![w] = [IdleLegacy EXCEPT
                                          !.phase = "build", !.job = j,
                                          !.auto_delete = settings.auto_delete]]

\* _claim_next_job on PostgreSQL: the one statement locks the first queued
\* row that is not locked and updates it; the update is not committed yet
claim_next_job_pg_execute(w) ==
    /\ backend = "postgres"
    /\ legacy[w].phase = "idle"
    /\ first_queued_skip_locked(w) /= NULL
    /\ locks' = locks \cup {[by |-> w, row |-> first_queued_skip_locked(w)]}
    /\ legacy' = [legacy EXCEPT ![w].phase = "pg_commit",
                                ![w].job = first_queued_skip_locked(w)]
    /\ UNCHANGED <<dbvars, hookvars, workervars, othervars, backend, settings, streams, jobs_table,
                   outputs, hls, claims>>

\* _pg_conn commits on leaving the with block: the row is running and
\* unlocked, and the row is returned
claim_next_job_pg_commit(w) ==
    /\ legacy[w].phase = "pg_commit"
    /\ jobs_table' = [jobs_table EXCEPT ![legacy[w].job].status = "running"]
    /\ locks' = {l \in locks : l.by /= w}
    /\ Returned(w, legacy[w].job)
    /\ UNCHANGED <<dbvars, hookvars, workervars, othervars, backend, settings, streams, outputs, hls>>

\* _claim_next_job on SQLite: BEGIN IMMEDIATE takes the write lock of the
\* file (and waits while another connection holds it)
claim_next_job_sqlite_begin(w) ==
    /\ backend = "sqlite"
    /\ legacy[w].phase = "idle"
    /\ ~ MustWait(w, 0)
    /\ locks' = locks \cup {[by |-> w, row |-> 0]}
    /\ legacy' = [legacy EXCEPT ![w].phase = "sqlite_select"]
    /\ UNCHANGED <<dbvars, hookvars, workervars, othervars, backend, settings, streams, jobs_table,
                   outputs, hls, claims>>

\* the SELECT of the first queued row; without one, COMMIT and return None
claim_next_job_sqlite_select(w) ==
    /\ legacy[w].phase = "sqlite_select"
    /\ IF first_queued = NULL
       THEN /\ locks' = {l \in locks : l.by /= w}
            /\ legacy' = [legacy EXCEPT ![w] = IdleLegacy]
       ELSE /\ legacy' = [legacy EXCEPT ![w].phase = "sqlite_update",
                                       ![w].job = first_queued]
            /\ UNCHANGED locks
    /\ UNCHANGED <<dbvars, hookvars, workervars, othervars, backend, settings, streams, jobs_table,
                   outputs, hls, claims>>

\* UPDATE ... WHERE id=? AND status='queued', COMMIT, and the row is
\* returned when rowcount is 1
claim_next_job_sqlite_update(w) ==
    /\ legacy[w].phase = "sqlite_update"
    /\ locks' = {l \in locks : l.by /= w}
    /\ IF jobs_table[legacy[w].job].status = "queued"
       THEN /\ jobs_table' = [jobs_table EXCEPT ![legacy[w].job].status = "running"]
            /\ Returned(w, legacy[w].job)
       ELSE /\ legacy' = [legacy EXCEPT ![w] = IdleLegacy]
            /\ UNCHANGED <<jobs_table, claims>>
    /\ UNCHANGED <<dbvars, hookvars, workervars, othervars, backend, settings, streams, outputs, hls>>

\* the stream keys of table pcs of src/api, and the values of the form field
\* name of a hook request
ApiPcs == {Key1, Key2}
ApiNames == {Key1, Key2, KeyUnknown}

\* an INSERT that enqueues the job twice
job_create_twice(stream_key) ==
    jobs_table \o << [stream_key |-> stream_key, status |-> "queued",
                      message |-> "stream ended", output_path |-> NULL],
                     [stream_key |-> stream_key, status |-> "queued",
                      message |-> "stream ended", output_path |-> NULL] >>

\* job_create: INSERT INTO jobs(stream_key, status, ...) VALUES(?, 'queued', ...)
job_create(stream_key) ==
    Append(jobs_table, [stream_key |-> stream_key, status |-> "queued",
                        message |-> "stream ended", output_path |-> NULL])

\* src/api on_publish: with strict_keys a name that is no registered stream
\* key is answered 403; otherwise the stream is marked live
api_on_publish(name) ==
    /\ calls.on_publish < MaxPublish
    /\ calls' = [calls EXCEPT !.on_publish = @ + 1]
    /\ streams' = IF settings.strict_keys /\ name \notin ApiPcs
                  THEN streams
                  ELSE [streams EXCEPT ![name] = TRUE]
    /\ UNCHANGED <<dbvars, hook, workervars, othervars, backend, settings, jobs_table,
                   locks, legacy, outputs, hls, claims>>

\* src/api on_publish_done: the stream is marked not live and, with
\* save_videos, a job is created
api_on_publish_done(name) ==
    /\ calls.on_publish_done < MaxPublishDone
    /\ calls' = [calls EXCEPT !.on_publish_done = @ + 1]
    /\ streams' = [streams EXCEPT ![name] = FALSE]
    /\ IF settings.save_videos
       THEN /\ Len(jobs_table) < NumJobs
            /\ jobs_table' = job_create(name)
            /\ outputs' = Append(outputs, NoOutput)
            /\ claims' = Append(claims, 0)
       ELSE UNCHANGED <<jobs_table, outputs, claims>>
    /\ UNCHANGED <<dbvars, hook, workervars, othervars, backend, settings, locks,
                   legacy, hls>>

\* src/api api_set_settings: setting_set of one of the three keys
api_set_settings(key, value) ==
    /\ settings[key] /= value
    /\ settings' = [settings EXCEPT ![key] = value]
    /\ UNCHANGED <<dbvars, hookvars, workervars, othervars, backend, streams, jobs_table,
                   locks, legacy, outputs, hls, claims>>

\* job_claim_next of src/api on SQLite: the SELECT of the first queued row,
\* outside of any transaction (the caller is idle, or holds the job its last
\* call returned)
job_claim_next_select(w) ==
    /\ backend = "sqlite"
    /\ legacy[w].phase \in {"idle", "returned"}
    /\ first_queued /= NULL
    /\ legacy' = [legacy EXCEPT ![w] = [IdleLegacy EXCEPT !.phase = "job_claim_next",
                                                         !.job = first_queued]]
    /\ UNCHANGED <<dbvars, hookvars, workervars, othervars, backend, settings, streams, jobs_table,
                   locks, outputs, hls, claims>>

\* UPDATE jobs SET status='running' WHERE id=? (it waits for the write lock
\* of the file), the SELECT of the row, the return, and the commit of
\* _sqlite_conn
job_claim_next_update(w) ==
    /\ legacy[w].phase = "job_claim_next"
    /\ ~ MustWait(w, 0)
    /\ jobs_table' = [jobs_table EXCEPT ![legacy[w].job].status = "running"]
    /\ claims' = [claims EXCEPT ![legacy[w].job] = Min(@ + 1, 2)]
    /\ legacy' = [legacy EXCEPT ![w].phase = "returned"]
    /\ UNCHANGED <<dbvars, hookvars, workervars, othervars, backend, settings, streams, locks,
                   outputs, hls>>

\* _build_mp4_from_hls once the playlist is there: ffmpeg fails and leaves no
\* file or an empty one, or it writes the mp4, of at most the limit of the
\* Bot API or of more
BuildOutcomes ==
    {[built |-> FALSE, wrote |-> FALSE, size |-> 0],
     [built |-> FALSE, wrote |-> TRUE, size |-> 0],
     [built |-> TRUE, wrote |-> TRUE, size |-> TELEGRAM_LIMIT_BYTES],
     [built |-> TRUE, wrote |-> TRUE, size |-> TELEGRAM_LIMIT_BYTES + 1]}

\* handle_job: _build_mp4_from_hls raises (no playlist, or ffmpeg failed) or
\* returns the path and the size, and the size decides between the text
\* message and the file-send
handle_job_build(w) ==
    /\ legacy[w].phase = "build"
    /\ LET j == legacy[w].job
           media == hls[jobs_table[j].stream_key]
       IN  IF ~ (media.recorded \/ media.live)
           THEN /\ legacy' = [legacy EXCEPT ![w].phase = "job_update",
                                            ![w].outcome = "error"]
                /\ UNCHANGED outputs
           ELSE \E out \in BuildOutcomes :
                  /\ outputs' = IF out.wrote
                                THEN [outputs EXCEPT ![j] = [exists |-> TRUE,
                                                             size |-> out.size]]
                                ELSE outputs
                  /\ legacy' = [legacy EXCEPT
                        ![w].size = out.size,
                        ![w].outcome = IF ~ out.built THEN "error"
                                       ELSE IF out.size > TELEGRAM_LIMIT_BYTES
                                       THEN "too_large" ELSE NoneStr,
                        ![w].phase = IF out.built /\ out.size <= TELEGRAM_LIMIT_BYTES
                                     THEN "tg_send_video" ELSE "job_update"]
    /\ UNCHANGED <<dbvars, hookvars, workervars, othervars, backend, settings, streams, jobs_table,
                   locks, hls, claims>>

\* handle_job: _tg_send_video returns whether the Bot API answered ok
handle_job_tg_send_video(w) ==
    /\ legacy[w].phase = "tg_send_video"
    /\ \E ok \in BOOLEAN :
          legacy' = [legacy EXCEPT ![w].phase = "job_update",
                                   ![w].outcome = IF ok /\ outputs[legacy[w].job].exists
                                                  THEN "sent" ELSE "send_failed"]
    /\ UNCHANGED <<dbvars, hookvars, workervars, othervars, backend, settings, streams, jobs_table,
                   locks, outputs, hls, claims>>

\* _job_update that leaves the status of the row alone
job_update_keeps_status(j, status, message, output_path) ==
    [jobs_table EXCEPT ![j] = [@ EXCEPT !.message = message,
                                        !.output_path = output_path]]

\* _job_update: UPDATE jobs SET status, message, output_path WHERE id, and
\* the commit
job_update(j, status, message, output_path) ==
    [jobs_table EXCEPT ![j] = [@ EXCEPT !.status = status, !.message = message,
                                        !.output_path = output_path]]

\* handle_job: the outcome is recorded (after the text message of the
\* branches that send one)
handle_job_job_update(w) ==
    /\ legacy[w].phase = "job_update"
    /\ ~ MustWait(w, legacy[w].job)
    /\ LET j == legacy[w].job
           outcome == legacy[w].outcome
       IN  jobs_table' = job_update(j, IF outcome = "sent" THEN "done" ELSE "failed",
                                    outcome,
                                    IF outcome = "error" THEN NULL ELSE j)
    /\ legacy' = [legacy EXCEPT ![w].phase = "cleanup"]
    /\ UNCHANGED <<dbvars, hookvars, workervars, othervars, backend, settings, streams, locks,
                   outputs, hls, claims>>

\* handle_job: _job_update raises and nothing is written (the database is
\* locked or cannot be reached). In the try block the exception is caught:
\* the except branch sends its text message and records 'failed' with no
\* output_path. In the except branch the exception leaves handle_job, and
\* main, which does not catch it
handle_job_job_update_raises(w) ==
    /\ legacy[w].phase = "job_update"
    /\ legacy' = IF legacy[w].outcome /= "error"
                 THEN [legacy EXCEPT ![w].outcome = "error"]
                 ELSE [legacy EXCEPT ![w].phase = "raised"]
    /\ UNCHANGED <<dbvars, hookvars, workervars, othervars, backend, settings, streams, jobs_table,
                   locks, outputs, hls, claims>>

\* a worker that removes the file only after a delivery
removes_out_path_when_sent(auto_delete, outcome) ==
    auto_delete /\ outcome = "sent"

\* handle_job: os.remove(out_path) in the three branches that built the file
removes_out_path(auto_delete, outcome) ==
    auto_delete /\ outcome \in {"sent", "send_failed", "too_large"}

\* _cleanup_stream_folder: shutil.rmtree of the HLS directory of the key
cleanup_stream_folder(stream_key) ==
    [hls EXCEPT ![stream_key] = [recorded |-> FALSE, live |-> FALSE]]

\* handle_job: the file is removed when auto_delete says so, the HLS
\* directory is removed, and handle_job returns
handle_job_cleanup(w) ==
    /\ legacy[w].phase = "cleanup"
    /\ LET j == legacy[w].job
       IN  /\ outputs' = IF removes_out_path(legacy[w].auto_delete, legacy[w].outcome)
                         THEN [outputs EXCEPT ![j] = NoOutput]
                         ELSE outputs
           /\ hls' = cleanup_stream_folder(jobs_table[j].stream_key)
    /\ legacy' = [legacy EXCEPT ![w] = IdleLegacy]
    /\ UNCHANGED <<dbvars, hookvars, workervars, othervars, backend, settings, streams, jobs_table,
                   locks, claims>>

\* the ingestion server writes the segments of a new broadcast of the key
new_broadcast(stream_key) ==
    /\ ~ hls[stream_key].live
    /\ hls' = [hls EXCEPT ![stream_key].live = TRUE]
    /\ UNCHANGED <<dbvars, hookvars, workervars, othervars, backend, settings, streams, jobs_table,
                   locks, legacy, outputs, claims>>

-----------------------------------------------------------------------------
(* The ingest gateway *)

vars == <<users, pcs, sessions, jobs, hook, calls, config, files, worker, claimed,
          telegram, listing, backend, settings, streams, jobs_table, locks, legacy,
          outputs, hls, claims, approval_required, steam_accounts, steam_leases,
          lease_req>>

\* no Steam account is registered and no lease is requested
NoSteamSlot ==
    /\ steam_accounts = <<>>
    /\ steam_leases = <<>>
    /\ lease_req = <<>>

\* src/obs is not part of the deployment
NoOther ==
    /\ approval_required = FALSE
    /\ NoSteamSlot

\* src/worker and its database are not part of the deployment
NoLegacy ==
    /\ backend = "postgres"
    /\ settings = [auto_delete |-> TRUE, save_videos |-> TRUE, strict_keys |-> TRUE]
    /\ streams = <<>>
    /\ jobs_table = <<>>
    /\ locks = {}
    /\ legacy = <<>>
    /\ outputs = <<>>
    /\ hls = <<>>
    /\ claims = <<>>

NoWorkers ==
    /\ config = [token |-> TRUE, auto_delete |-> FALSE, max_mb |-> TELEGRAM_MAX_MB]
    /\ files = <<>>
    /\ worker = [w \in Workers |-> IdleWorker]
    /\ claimed = <<>>
    /\ telegram = {}
    /\ listing = [w \in Workers |-> {}]
    /\ NoLegacy
    /\ NoOther

Init ==
    /\ \E second \in SecondSources :
          /\ users = (1 :> UserOk) @@ (2 :> second.user)
          /\ pcs = (1 :> PcRow(1, Key1, TRUE)) @@ (2 :> second.pc)
          /\ sessions = second.sessions
    /\ jobs = <<>>
    /\ hook = EmptyBag
    /\ calls = [on_publish |-> 0, on_publish_done |-> 0]
    /\ NoWorkers

Next ==
    \/ on_publish_begin
    \/ on_publish_done_begin
    \/ \E req \in InFlight : on_publish_get_active_session(req)
    \/ \E req \in InFlight : on_publish_end_session(req)
    \/ \E req \in InFlight : on_publish_start_session(req)
    \/ \E req \in InFlight : on_publish_done_get_active_session(req)
    \/ \E req \in InFlight : on_publish_done_end_session(req)
    \/ \E req \in InFlight : on_publish_done_create_clip_job(req)
    \/ \E req \in InFlight : reply(req)

Spec == Init /\ [][Next]_vars

-----------------------------------------------------------------------------
(* The worker pool: NumWorkers workers and NumJobs pending jobs, one per     *)
(* closed session; the sessions alternate between the two sources, the      *)
(* first with a linked chat, the second without                             *)

WorkerInit ==
    /\ users = (1 :> UserOk) @@ (2 :> UserNoChat)
    /\ pcs = (1 :> PcRow(1, Key1, TRUE)) @@ (2 :> PcRow(2, Key2, TRUE))
    /\ sessions = [s \in 1..NumJobs |->
                     [pc_id |-> 2 - (s % 2), started_at |-> 2 * s - 1,
                      ended_at |-> 2 * s, status |-> DONE, note |-> NoneStr]]
    /\ jobs = [j \in 1..NumJobs |->
                 [session_id |-> j, status |-> PENDING, result_path |-> NULL,
                  error |-> NoneStr, size_bytes |-> NoSize, created_at |-> 2 * j]]
    /\ hook = EmptyBag
    /\ calls = [on_publish |-> NumJobs, on_publish_done |-> NumJobs]
    /\ config \in Configs
    /\ files = [s \in 1..NumJobs |-> NoFile]
    /\ worker = [w \in Workers |-> IdleWorker]
    /\ claimed = [j \in 1..NumJobs |-> {}]
    /\ telegram = {}
    /\ listing = [w \in Workers |-> {}]
    /\ NoLegacy
    /\ NoOther

WorkerNext ==
    \/ \E w \in Workers : main_loop_get_pending_jobs(w)
    \/ \E w \in Workers : process_clip_begin(w)
    \/ \E w \in Workers : process_clip_ffmpeg(w)
    \/ \E w \in Workers : process_clip_send_telegram_video(w)
    \/ \E w \in Workers : process_clip_send_telegram_message(w)
    \/ \E w \in Workers : main_loop_cleanup(w)

\* the workers while no clip file reaches CLIP_RETENTION_HOURS
WorkerSpec == WorkerInit /\ [][WorkerNext]_vars

\* process_clip of worker w: every await of it returns
process_clip(w) ==
    \/ process_clip_begin(w)
    \/ process_clip_ffmpeg(w)
    \/ process_clip_send_telegram_video(w)
    \/ process_clip_send_telegram_message(w)

\* main_loop of worker w: the process keeps running
main_loop(w) ==
    \/ main_loop_get_pending_jobs(w)
    \/ process_clip(w)
    \/ main_loop_cleanup(w)

\* the workers under the configuration that sends, deletes and has both
\* sides of the size limit
WorkerFairInit ==
    /\ WorkerInit
    /\ config.auto_delete

\* the workers when worker 1 keeps running and no worker stops inside
\* process_clip (asyncio resumes a coroutine whose await has returned, and
\* the sleep of main_loop ends after POLL_INTERVAL)
WorkerFairSpec ==
    /\ WorkerFairInit
    /\ [][WorkerNext]_vars
    /\ WF_vars(main_loop(1))
    /\ \A w \in Workers : WF_vars(process_clip(w))

WorkerFaultNext ==
    \/ WorkerNext
    \/ \E w \in Workers : process_clip_begin_raises(w)

\* the workers when a commit can fail
WorkerFaultSpec == WorkerInit /\ [][WorkerFaultNext]_vars

\* main_loop of worker w when a commit can fail: the except branch of the
\* loop logs the error and the loop goes on after the sleep
main_loop_with_faults(w) ==
    \/ main_loop(w)
    \/ process_clip_begin_raises(w)

\* every worker process keeps running, whatever raises
WorkerFaultFairSpec ==
    /\ WorkerInit
    /\ [][WorkerFaultNext]_vars
    /\ \A w \in Workers : WF_vars(main_loop_with_faults(w))

\* the steps of worker w that end without the muxer: the database, the
\* Telegram requests (httpx timeouts) and the sleep
main_loop_without_ffmpeg(w) ==
    \/ main_loop_get_pending_jobs(w)
    \/ process_clip_begin(w)
    \/ process_clip_send_telegram_video(w)
    \/ process_clip_send_telegram_message(w)
    \/ main_loop_cleanup(w)

\* the workers when every worker keeps running and process.communicate()
\* returns only if the muxer exits on its own: process_clip sets no timeout
\* on it and never kills it
WorkerHangSpec ==
    /\ WorkerFairInit
    /\ [][WorkerNext]_vars
    /\ \A w \in Workers : WF_vars(main_loop_without_ffmpeg(w))

\* what process_clip leaves of the PENDING job j of WorkerInit when
\* AUTO_DELETE_AFTER_SEND is off and the bot token set: the row and the file,
\* for the muxer's outcome out and the answer of the file-send
process_clip_leaves(j, out, delivered) ==
    LET pending == [session_id |-> j, status |-> PENDING, result_path |-> NULL,
                    error |-> NoneStr, size_bytes |-> NoSize, created_at |-> 2 * j]
        file == IF out.wrote
                THEN [exists |-> TRUE, size |-> out.size, old |-> FALSE]
                ELSE NoFile
        stored == [pending EXCEPT !.result_path = j, !.size_bytes = out.size]
        has_chat == j % 2 = 1
    IN  IF out.returncode /= 0
        THEN [job |-> [pending EXCEPT !.status = FAILED, !.error = "FFmpeg failed"],
              file |-> file]
        ELSE IF ~ out.wrote
        THEN [job |-> [pending EXCEPT !.status = FAILED,
                                      !.error = "No such file or directory"],
              file |-> file]
        ELSE IF ~ has_chat
        THEN [job |-> [stored EXCEPT !.status = STORED], file |-> file]
        ELSE IF within_limit(out.size)
        THEN [job |-> [stored EXCEPT !.status = status_after_send(delivered)],
              file |-> file]
        ELSE [job |-> [stored EXCEPT !.status = TOO_BIG], file |-> file]

\* the workers have processed every job; the clips they stored stay in
\* VIDEOS_DIR, AUTO_DELETE_AFTER_SEND being off
RetentionInit ==
    /\ users = (1 :> UserOk) @@ (2 :> UserNoChat)
    /\ pcs = (1 :> PcRow(1, Key1, TRUE)) @@ (2 :> PcRow(2, Key2, TRUE))
    /\ sessions = [s \in 1..NumJobs |->
                     [pc_id |-> 2 - (s % 2), started_at |-> 2 * s - 1,
                      ended_at |-> 2 * s, status |-> DONE, note |-> NoneStr]]
    /\ hook = EmptyBag
    /\ calls = [on_publish |-> NumJobs, on_publish_done |-> NumJobs]
    /\ config = [token |-> TRUE, auto_delete |-> FALSE, max_mb |-> TELEGRAM_MAX_MB]
    /\ \E out \in [1..NumJobs -> MuxOutcomes], delivered \in [1..NumJobs -> BOOLEAN] :
          /\ jobs = [j \in 1..NumJobs |->
                       process_clip_leaves(j, out[j], delivered[j]).job]
          /\ files = [j \in 1..NumJobs |->
                        process_clip_leaves(j, out[j], delivered[j]).file]
    /\ worker = [w \in Workers |-> IdleWorker]
    /\ claimed = [j \in 1..NumJobs |-> {}]
    /\ telegram = {}
    /\ listing = [w \in Workers |-> {}]
    /\ NoLegacy
    /\ NoOther

\* the files get older, and the sweep of one worker runs while the sweeps of
\* the other workers go on
RetentionNext ==
    \/ \E w \in Workers : main_loop_get_pending_jobs(w)
    \/ \E w \in Workers : main_loop_cleanup_glob(w)
    \/ \E w \in Workers : cleanup_old_clips_file(w)
    \/ \E w \in Workers : cleanup_old_clips_return(w)
    \/ \E path \in DOMAIN files : file_ages(path)

\* the workers over a time longer than CLIP_RETENTION_HOURS
RetentionSpec == RetentionInit /\ [][RetentionNext]_vars

-----------------------------------------------------------------------------
(* extract_stream_key on its own: a call with the three values a hook      *)
(* request can carry, and its return                                       *)

ExtractInit ==
    /\ users = (1 :> UserOk) @@ (2 :> UserNoChat)
    /\ pcs = (1 :> PcRow(1, Key1, TRUE)) @@ (2 :> PcRow(2, Key2, TRUE))
    /\ sessions = <<>>
    /\ jobs = <<>>
    /\ calls = [on_publish |-> 0, on_publish_done |-> 0]
    /\ NoWorkers
    /\ \E name \in Names, key \in KeyParams, tcurl \in Tcurls :
          hook = SetToBag({[op |-> "extract_stream_key", phase |-> "call",
                            name |-> name, key |-> key, tcurl |-> tcurl,
                            stream_key |-> NoneStr]})

extract_stream_key_return(req) ==
    /\ req.op = "extract_stream_key"
    /\ req.phase = "call"
    /\ hook' = SetToBag({[req EXCEPT
                            !.phase = "return",
                            !.stream_key = extract_stream_key(req.name, req.key,
                                                              req.tcurl)]})
    /\ UNCHANGED <<dbvars, calls, workervars, legacyvars, othervars>>

ExtractNext ==
    \/ \E req \in InFlight : extract_stream_key_return(req)

ExtractSpec == ExtractInit /\ [][ExtractNext]_vars

-----------------------------------------------------------------------------
(* src/worker: NumWorkers workers and NumJobs queued jobs, one per finished *)
(* broadcast, whose segments are on disk                                    *)

\* src/app and worker_service are not part of the deployment
NoFogServer ==
    /\ users = <<>>
    /\ pcs = <<>>
    /\ sessions = <<>>
    /\ jobs = <<>>
    /\ hook = EmptyBag
    /\ calls = [on_publish |-> 0, on_publish_done |-> 0]
    /\ config = [token |-> TRUE, auto_delete |-> FALSE, max_mb |-> TELEGRAM_MAX_MB]
    /\ files = <<>>
    /\ worker = <<>>
    /\ claimed = <<>>
    /\ telegram = {}
    /\ listing = <<>>
    /\ NoOther

LegacyInit ==
    /\ NoFogServer
    /\ backend \in {"postgres", "sqlite"}
    /\ settings \in [auto_delete : BOOLEAN, save_videos : {TRUE}, strict_keys : {TRUE}]
    /\ streams = [k \in ApiNames |-> FALSE]
    /\ jobs_table = [j \in JobIds |->
                       [stream_key |-> JobKey(j), status |-> "queued",
                        message |-> NoneStr, output_path |-> NULL]]
    /\ locks = {}
    /\ legacy = [w \in Workers |-> IdleLegacy]
    /\ outputs = [j \in JobIds |-> NoOutput]
    /\ hls = [k \in ApiPcs |-> [recorded |-> TRUE, live |-> FALSE]]
    /\ claims = [j \in JobIds |-> 0]

LegacyNext ==
    \/ \E w \in Workers : claim_next_job_pg_execute(w)
    \/ \E w \in Workers : claim_next_job_pg_commit(w)
    \/ \E w \in Workers : claim_next_job_sqlite_begin(w)
    \/ \E w \in Workers : claim_next_job_sqlite_select(w)
    \/ \E w \in Workers : claim_next_job_sqlite_update(w)
    \/ \E w \in Workers : handle_job_build(w)
    \/ \E w \in Workers : handle_job_tg_send_video(w)
    \/ \E w \in Workers : handle_job_job_update(w)
    \/ \E w \in Workers : handle_job_cleanup(w)
    \/ \E stream_key \in DOMAIN hls : new_broadcast(stream_key)

LegacySpec == LegacyInit /\ [][LegacyNext]_vars

\* the workers with a database that may fail when an outcome is recorded
LegacyFaultNext ==
    \/ LegacyNext
    \/ \E w \in Workers : handle_job_job_update_raises(w)

LegacyFaultSpec == LegacyInit /\ [][LegacyFaultNext]_vars

\* the callers of job_claim_next of src/api, on SQLite
ApiClaimInit ==
    /\ NoFogServer
    /\ backend = "sqlite"
    /\ settings \in [auto_delete : {TRUE}, save_videos : BOOLEAN, strict_keys : BOOLEAN]
    /\ streams = [k \in ApiNames |-> FALSE]
    /\ jobs_table = <<>>
    /\ locks = {}
    /\ legacy = [w \in Workers |-> IdleLegacy]
    /\ outputs = <<>>
    /\ hls = [k \in ApiPcs |-> [recorded |-> FALSE, live |-> FALSE]]
    /\ claims = <<>>

ApiClaimNext ==
    \/ \E name \in ApiNames : api_on_publish(name)
    \/ \E name \in ApiNames : api_on_publish_done(name)
    \/ \E w \in Workers : job_claim_next_select(w)
    \/ \E w \in Workers : job_claim_next_update(w)

ApiClaimSpec == ApiClaimInit /\ [][ApiClaimNext]_vars

\* src/api: the hooks of the ingestion server and the settings page
ApiInit ==
    /\ NoFogServer
    /\ backend \in {"postgres", "sqlite"}
    /\ settings \in [auto_delete : {TRUE}, save_videos : BOOLEAN, strict_keys : BOOLEAN]
    /\ streams = [k \in ApiNames |-> FALSE]
    /\ jobs_table = <<>>
    /\ locks = {}
    /\ legacy = [w \in Workers |-> IdleLegacy]
    /\ outputs = <<>>
    /\ hls = [k \in ApiPcs |-> [recorded |-> FALSE, live |-> FALSE]]
    /\ claims = <<>>

ApiNext ==
    \/ \E name \in ApiNames : api_on_publish(name)
    \/ \E name \in ApiNames : api_on_publish_done(name)
    \/ \E key \in {"save_videos", "strict_keys"}, value \in BOOLEAN :
          api_set_settings(key, value)

ApiSpec == ApiInit /\ [][ApiNext]_vars

-----------------------------------------------------------------------------
(* src/obs: the hooks of api_hooks.py over the tables users, pcs and        *)
(* stream_sessions; a handler runs its statements without awaiting in      *)
(* between                                                                  *)

\* _extract_stream_key: the first non-empty of the fields name and key and
\* of the query of tcurl
obs_extract_stream_key(name, key, tcurl) ==
    IF name /= NoneStr THEN name
    ELSE IF key /= NoneStr THEN key
    ELSE IF tcurl.present /\ tcurl.query_key /= <<>> THEN tcurl.query_key[1]
    ELSE NoneStr

\* the sessions of the PC with ended_at IS NULL
OpenSessions(pc_id) ==
    {s \in DOMAIN sessions : sessions[s].pc_id = pc_id /\ sessions[s].ended_at = NULL}

\* ORDER BY id DESC, and scalar() takes the first row
LatestOpenSession(pc_id) ==
    CHOOSE s \in OpenSessions(pc_id) : \A t \in OpenSessions(pc_id) : t <= s

\* src/obs on_publish: 403 without a key, for an unknown key and, with
\* APPROVAL_REQUIRED, for an owner who is not approved; otherwise a session
\* with status live is inserted
obs_on_publish(name, key, tcurl) ==
    /\ calls.on_publish < MaxPublish
    /\ calls' = [calls EXCEPT !.on_publish = @ + 1]
    /\ LET stream_key == obs_extract_stream_key(name, key, tcurl)
           pc == get_pc_by_stream_key(stream_key)
       IN  sessions' =
             IF stream_key = NoneStr \/ pc = NULL THEN sessions
             ELSE IF approval_required /\ ~ users[pcs[pc].user_id].is_approved
             THEN sessions
             ELSE Append(sessions, [pc_id |-> pc, started_at |-> now,
                                    ended_at |-> NULL, status |-> LIVE,
                                    note |-> NoneStr])
    /\ UNCHANGED <<users, pcs, jobs, hook, workervars, legacyvars, othervars>>

\* src/obs on_publish_done: the latest session of the PC that has no
\* ended_at is closed
obs_on_publish_done(name, key, tcurl) ==
    /\ calls.on_publish_done < MaxPublishDone
    /\ calls' = [calls EXCEPT !.on_publish_done = @ + 1]
    /\ LET stream_key == obs_extract_stream_key(name, key, tcurl)
           pc == get_pc_by_stream_key(stream_key)
       IN  sessions' =
             IF stream_key = NoneStr \/ pc = NULL THEN sessions
             ELSE IF OpenSessions(pc) = {} THEN sessions
             ELSE [sessions EXCEPT ![LatestOpenSession(pc)].ended_at = now,
                                   ![LatestOpenSession(pc)].status = DONE]
    /\ UNCHANGED <<users, pcs, jobs, hook, workervars, legacyvars, othervars>>

ObsInit ==
    /\ users = (1 :> UserOk) @@ (2 :> [UserNoChat EXCEPT !.is_approved = FALSE])
    /\ pcs = (1 :> PcRow(1, Key1, TRUE)) @@ (2 :> PcRow(2, Key2, TRUE))
    /\ sessions = <<>>
    /\ jobs = <<>>
    /\ hook = EmptyBag
    /\ calls = [on_publish |-> 0, on_publish_done |-> 0]
    /\ config = [token |-> TRUE, auto_delete |-> FALSE, max_mb |-> TELEGRAM_MAX_MB]
    /\ files = <<>>
    /\ worker = [w \in Workers |-> IdleWorker]
    /\ claimed = <<>>
    /\ telegram = {}
    /\ listing = [w \in Workers |-> {}]
    /\ NoLegacy
    /\ approval_required \in BOOLEAN
    /\ NoSteamSlot

ObsNext ==
    \/ \E name \in Names, key \in KeyParams, tcurl \in Tcurls :
          obs_on_publish(name, key, tcurl)
    \/ \E name \in Names, key \in KeyParams, tcurl \in Tcurls :
          obs_on_publish_done(name, key, tcurl)

ObsSpec == ObsInit /\ [][ObsNext]_vars

-----------------------------------------------------------------------------
(* src/app SteamSlot: the requests that create a lease, the release of a    *)
(* lease and the passing of its expiry time                                 *)

Handlers == 1..NumHandlers

\* User.can_use_steamslot
can_use_steamslot(u) == u.role \in {"admin", "premium"}

\* SteamAccount.active_lease_count over the leases of the account as they are
\* in the database now: the leases with status ACTIVE, expired or not
active_lease_count(account_id) ==
    Cardinality({l \in DOMAIN steam_leases :
                    /\ steam_leases[l].account_id = account_id
                    /\ steam_leases[l].status = "active"})

\* SteamAccount.available_slots, for the leases the account object holds
available_slots(max_slots, count) ==
    IF max_slots - count > 0 THEN max_slots - count ELSE 0

\* the rows get_active_lease_for_pc selects: ACTIVE and not past expires_at
ActiveLeasesOfPc(pc_id) ==
    {l \in DOMAIN steam_leases : /\ steam_leases[l].pc_id = pc_id
                                 /\ steam_leases[l].status = "active"
                                 /\ ~ steam_leases[l].expired}

IdleRequest == [op |-> NoneStr, phase |-> "idle", account_id |-> NULL, pc_id |-> NULL,
                active_lease_count |-> 0, resp |-> 0]

\* the handler raises HTTPException(code), fails with 500, or returns 201
LeaseResponse(h, code) ==
    lease_req' = [lease_req EXCEPT ![h].phase = "respond", ![h].resp = code]

\* POST /leases up to its third await: the access check, the PC of the
\* caller, and get_account_by_id, which loads the account and its leases
create_lease_get_account_by_id(h, account_id, pc_id) ==
    /\ lease_req[h].phase = "idle"
    /\ LET req == [IdleRequest EXCEPT !.op = "create_lease", !.pc_id = pc_id,
                                      !.account_id = account_id]
       IN  lease_req' = [lease_req EXCEPT ![h] =
             IF ~ can_use_steamslot(users[pcs[pc_id].user_id])
             THEN [req EXCEPT !.phase = "respond", !.resp = 403]
             ELSE IF account_id \notin DOMAIN steam_accounts
             THEN [req EXCEPT !.phase = "respond", !.resp = 404]
             ELSE IF ~ steam_accounts[account_id].enabled
             THEN [req EXCEPT !.phase = "respond", !.resp = 400]
             ELSE [req EXCEPT !.phase = "get_active_lease_for_pc",
                              !.active_lease_count = active_lease_count(account_id)]]
    /\ UNCHANGED <<dbvars, hookvars, workervars, legacyvars, approval_required,
                   steam_accounts, steam_leases>>

\* POST /script/lease up to its first await: the access check of the owner
\* of the PC the token is bound to
script_create_lease_begin(h, pc_id) ==
    /\ lease_req[h].phase = "idle"
    /\ LET req == [IdleRequest EXCEPT !.op = "script_create_lease", !.pc_id = pc_id]
       IN  lease_req' = [lease_req EXCEPT ![h] =
             IF ~ can_use_steamslot(users[pcs[pc_id].user_id])
             THEN [req EXCEPT !.phase = "respond", !.resp = 403]
             ELSE [req EXCEPT !.phase = "get_active_lease_for_pc"]]
    /\ UNCHANGED <<dbvars, hookvars, workervars, legacyvars, approval_required,
                   steam_accounts, steam_leases>>

\* both handlers: get_active_lease_for_pc (scalar_one_or_none raises for
\* more than one row) and the rejection of a PC that has a lease
get_active_lease_for_pc(h) ==
    /\ lease_req[h].phase = "get_active_lease_for_pc"
    /\ LET existing == ActiveLeasesOfPc(lease_req[h].pc_id)
       IN  IF Cardinality(existing) > 1 THEN LeaseResponse(h, 500)
           ELSE IF existing /= {} THEN LeaseResponse(h, 400)
           ELSE lease_req' = [lease_req EXCEPT ![h].phase =
                                IF lease_req[h].op = "create_lease"
                                THEN "create_lease" ELSE "list_accounts"]
    /\ UNCHANGED <<dbvars, hookvars, workervars, legacyvars, approval_required,
                   steam_accounts, steam_leases>>

\* the enabled accounts with a free slot and a file, as list_accounts loads
\* them now
AvailableAccounts ==
    {a \in DOMAIN steam_accounts :
        /\ steam_accounts[a].enabled
        /\ available_slots(steam_accounts[a].max_slots, active_lease_count(a)) > 0
        /\ steam_accounts[a].file_data}

\* POST /script/lease: list_accounts loads the enabled accounts and their
\* leases in name order, and the first with a free slot and a file is taken
script_create_lease_list_accounts(h) ==
    /\ lease_req[h].phase = "list_accounts"
    /\ IF AvailableAccounts = {} THEN LeaseResponse(h, 503)
       ELSE LET account == CHOOSE a \in AvailableAccounts :
                               \A b \in AvailableAccounts : a <= b
            IN  lease_req' = [lease_req EXCEPT
                   ![h].phase = "create_lease",
                   ![h].account_id = account,
                   ![h].active_lease_count = active_lease_count(account)]
    /\ UNCHANGED <<dbvars, hookvars, workervars, legacyvars, approval_required,
                   steam_accounts, steam_leases>>

\* SteamSlotService.create_lease: the check of available_slots on the
\* account object the handler loaded, the INSERT and the commit
create_lease(h) ==
    /\ lease_req[h].phase = "create_lease"
    /\ IF available_slots(steam_accounts[lease_req[h].account_id].max_slots,
                          lease_req[h].active_lease_count) <= 0
       THEN /\ LeaseResponse(h, 400)
            /\ UNCHANGED steam_leases
       ELSE /\ steam_leases' = Append(steam_leases,
                                      [account_id |-> lease_req[h].account_id,
                                       pc_id |-> lease_req[h].pc_id,
                                       status |-> "active", expired |-> FALSE])
            /\ LeaseResponse(h, 201)
    /\ UNCHANGED <<dbvars, hookvars, workervars, legacyvars, approval_required,
                   steam_accounts>>

\* SteamSlotService.release_lease, for a lease that is ACTIVE
release_lease(l) ==
    /\ steam_leases[l].status = "active"
    /\ steam_leases' = [steam_leases EXCEPT ![l].status = "released"]
    /\ UNCHANGED <<dbvars, hookvars, workervars, legacyvars, approval_required,
                   steam_accounts, lease_req>>

\* time passes: expires_at of a lease is reached
lease_expires(l) ==
    /\ ~ steam_leases[l].expired
    /\ steam_leases' = [steam_leases EXCEPT ![l].expired = TRUE]
    /\ UNCHANGED <<dbvars, hookvars, workervars, legacyvars, approval_required,
                   steam_accounts, lease_req>>

\* two PCs of premium owners (the second owner may be on the OBS plan), an
\* account with one slot and one with two (enabled or not), and no lease or
\* a lease of the second PC on the second account; every handler serves one
\* request
SteamSlotInit ==
    /\ \E role \in {"premium", "obs"} :
          users = (1 :> [UserOk EXCEPT !.role = "premium"])
                  @@ (2 :> [UserNoChat EXCEPT !.role = role])
    /\ pcs = (1 :> PcRow(1, Key1, TRUE)) @@ (2 :> PcRow(2, Key2, TRUE))
    /\ sessions = <<>>
    /\ jobs = <<>>
    /\ hook = EmptyBag
    /\ calls = [on_publish |-> 0, on_publish_done |-> 0]
    /\ config = [token |-> TRUE, auto_delete |-> FALSE, max_mb |-> TELEGRAM_MAX_MB]
    /\ files = <<>>
    /\ worker = [w \in Workers |-> IdleWorker]
    /\ claimed = <<>>
    /\ telegram = {}
    /\ listing = [w \in Workers |-> {}]
    /\ NoLegacy
    /\ approval_required = FALSE
    /\ \E enabled \in BOOLEAN :
          steam_accounts = (1 :> [enabled |-> TRUE, max_slots |-> 1, file_data |-> TRUE])
                           @@ (2 :> [enabled |-> enabled, max_slots |-> 2,
                                     file_data |-> TRUE])
    /\ steam_leases \in {<<>>, <<[account_id |-> 2, pc_id |-> 2, status |-> "active",
                                  expired |-> FALSE]>>}
    /\ lease_req = [h \in Handlers |-> IdleRequest]

SteamSlotNext ==
    \/ \E h \in Handlers, account_id \in {1, 2, 3}, pc_id \in PcIds :
          create_lease_get_account_by_id(h, account_id, pc_id)
    \/ \E h \in Handlers, pc_id \in PcIds : script_create_lease_begin(h, pc_id)
    \/ \E h \in Handlers : get_active_lease_for_pc(h)
    \/ \E h \in Handlers : script_create_lease_list_accounts(h)
    \/ \E h \in Handlers : create_lease(h)
    \/ \E l \in DOMAIN steam_leases : release_lease(l)
    \/ \E l \in DOMAIN steam_leases : lease_expires(l)

SteamSlotSpec == SteamSlotInit /\ [][SteamSlotNext]_vars

-----------------------------------------------------------------------------
(* Properties of the ingest gateway (Spec) and of the worker pool           *)
(* (WorkerSpec)                                                             *)

\* the step in which the request req continues as req2
Step(req, req2) == hook' = (hook (-) SetToBag({req})) (+) SetToBag({req2})

\* no source has this stream key
UnknownKey(stream_key) == \A p \in PcIds : pcs[p].stream_key /= stream_key

\* C1: every source has at most one session with status LIVE, whatever the
\* interleaving of the start notifications
C1_AtMostOneLiveSession ==
    \A p \in PcIds : Cardinality(LiveSessions(p)) <= 1

\* C2: every job is marked PROCESSING by at most one worker (no job is
\* claimed twice)
C2_AtMostOneClaimant ==
    \A j \in DOMAIN jobs : Cardinality(claimed[j]) <= 1

\* C3: every session has at most one clip job, also when two stop
\* notifications for the session are handled concurrently
C3_AtMostOneClipJobPerSession ==
    \A s \in DOMAIN sessions : Cardinality(JobsOf(s)) <= 1

\* C3 witness: a second stop notification for the session lost the race for
\* the job (its INSERT failed) and the session has its one job
C3_Witness ==
    \E req \in InFlight :
        /\ req.op = "on_publish_done"
        /\ req.phase = "respond"
        /\ req.resp = 500
        /\ req.session /= NULL
        /\ Cardinality(JobsOf(req.session)) = 1

\* C4: in no committed state is a session DONE without a clip job
C4_DoneSessionHasJob ==
    \A s \in DOMAIN sessions : sessions[s].status = DONE => JobsOf(s) /= {}

\* C5: the status of a job only changes PENDING -> PROCESSING or
\* PROCESSING -> SENT, STORED, TOO_BIG or FAILED
C5_JobStatusTransitions ==
    [][\A j \in DOMAIN jobs :
          jobs'[j].status /= jobs[j].status =>
              \/ jobs[j].status = PENDING /\ jobs'[j].status = PROCESSING
              \/ jobs[j].status = PROCESSING /\ jobs'[j].status \in TerminalStatuses]_vars

\* C6: when on_publish found a LIVE session and creates the new session, the
\* prior session is closed with status ERROR, the replacement note and
\* ended_at set, and the new session is the only LIVE session of the source
C6_ReplacedThenOneLive ==
    [][\A req \in InFlight :
          ( /\ req.op = "on_publish"
            /\ req.phase = "start_session"
            /\ req.session /= NULL
            /\ Step(req, Response(req, 200)) )
          => /\ sessions'[req.session].status = ERROR
             /\ sessions'[req.session].note = ReplacedNote
             /\ sessions'[req.session].ended_at /= NULL
             /\ {s \in DOMAIN sessions' : /\ sessions'[s].pc_id = req.pc_id
                                          /\ sessions'[s].status = LIVE}
                  = {Len(sessions')}]_vars

\* C7: a stop notification is never answered with an error
C7_StopAlwaysAccepted ==
    \A req \in InFlight :
        req.op = "on_publish_done" /\ req.phase = "respond" => req.resp = 200

\* C8: every clip job belongs to a session with status DONE (so a session
\* closed with ERROR has none)
C8_JobOnlyForDoneSession ==
    \A j \in DOMAIN jobs : sessions[jobs[j].session_id].status = DONE

\* C9: the step of on_publish_done that ends the session it found LIVE makes
\* that session DONE with ended_at set and changes no other row; its next
\* step leaves the session with exactly one clip job, changes no session and
\* no existing job, and the job it inserts is PENDING
C9_StopClosesAndEnqueues ==
    [][\A req \in InFlight :
          /\ ( /\ req.op = "on_publish_done"
               /\ req.phase = "end_session"
               /\ Step(req, [req EXCEPT !.phase = "create_clip_job"]) )
             => /\ sessions'[req.session].status = DONE
                /\ sessions'[req.session].ended_at /= NULL
                /\ DOMAIN sessions' = DOMAIN sessions
                /\ \A s \in DOMAIN sessions \ {req.session} : sessions'[s] = sessions[s]
                /\ jobs' = jobs
          /\ ( /\ req.op = "on_publish_done"
               /\ req.phase = "create_clip_job"
               /\ \E code \in {200, 500} :
                     Step(req, [Response(req, code) EXCEPT !.session = req.session]) )
             => /\ sessions' = sessions
                /\ Cardinality({j \in DOMAIN jobs' : jobs'[j].session_id = req.session}) = 1
                /\ \A j \in DOMAIN jobs : jobs'[j] = jobs[j]
                /\ jobs' /= jobs =>
                      /\ Len(jobs') = Len(jobs) + 1
                      /\ jobs'[Len(jobs')].session_id = req.session
                      /\ jobs'[Len(jobs')].status = PENDING]_vars

\* C9 witness: a stop notification was accepted after it closed a session,
\* which is DONE with ended_at set and has one PENDING job, while the source
\* has other sessions
C9_Witness ==
    \E req \in InFlight :
        /\ req.op = "on_publish_done"
        /\ req.phase = "respond"
        /\ req.resp = 200
        /\ req.session /= NULL
        /\ sessions[req.session].status = DONE
        /\ sessions[req.session].ended_at /= NULL
        /\ \E j \in DOMAIN jobs : /\ JobsOf(req.session) = {j}
                                  /\ jobs[j].status = PENDING
        /\ Len(sessions) > 1

\* C10: a start notification whose key matches no source is rejected with
\* 403 and its arrival changes no session row
C10_UnknownKeyRejected ==
    [][\A req \in BagToSet(hook') :
          req.op = "on_publish" /\ UnknownKey(req.stream_key) =>
              /\ req.phase = "respond"
              /\ req.resp = 403
              /\ CopiesIn(req, hook') > CopiesIn(req, hook) => sessions' = sessions]_vars

\* C10 witness: a start notification with a key of no source was rejected
\* while sessions exist
C10_Witness ==
    \E req \in InFlight :
        /\ req.op = "on_publish"
        /\ req.stream_key /= NoneStr
        /\ UnknownKey(req.stream_key)
        /\ req.phase = "respond"
        /\ req.resp = 403
        /\ sessions /= <<>>

\* the source, or its owner, is not allowed to broadcast now
NotAllowed(p) ==
    LET user == users[pcs[p].user_id]
    IN  \/ ~ pcs[p].is_active
        \/ ~ user.is_approved
        \/ ~ user.is_active
        \/ user.role = "trial" /\ (user.trial_ends_at = NULL \/ user.trial_ends_at <= now)

\* the request req arrives in this step
Arrives(req) ==
    /\ BagCardinality(hook') > BagCardinality(hook)
    /\ CopiesIn(req, hook') > CopiesIn(req, hook)

\* C11: a start notification for a source that is disabled, or whose owner
\* is not approved, not active or on an expired trial, is rejected with 403
\* and changes no session row
C11_NotAllowedRejected ==
    [][\A req \in BagToSet(hook') :
          ( /\ Arrives(req)
            /\ req.op = "on_publish"
            /\ \E p \in PcIds : pcs[p].stream_key = req.stream_key /\ NotAllowed(p) )
          => /\ req.phase = "respond"
             /\ req.resp = 403
             /\ sessions' = sessions]_vars

\* C11 witness: a start notification was rejected for a source that is not
\* allowed to broadcast and has a LIVE session
C11_Witness ==
    \E req \in InFlight, p \in PcIds :
        /\ req.op = "on_publish"
        /\ req.phase = "respond"
        /\ req.resp = 403
        /\ pcs[p].stream_key = req.stream_key
        /\ NotAllowed(p)
        /\ LiveSessions(p) /= {}

\* a copy of the request req takes a step
Leaves(req) == CopiesIn(req, hook') < CopiesIn(req, hook)

\* C12: a stop notification for an unknown key, or for a source without a
\* LIVE session, is answered 200, and no step of it changes a session or a
\* clip job
C12_StopWithoutSessionIsNoOp ==
    [][/\ \A req \in BagToSet(hook') :
             Arrives(req) /\ req.op = "on_publish_done" =>
                 /\ sessions' = sessions
                 /\ jobs' = jobs
                 /\ UnknownKey(req.stream_key) =>
                       req.phase = "respond" /\ req.resp = 200
       /\ \A req \in InFlight :
             ( /\ req.op = "on_publish_done"
               /\ req.phase = "get_active_session"
               /\ LiveSessions(req.pc_id) = {}
               /\ Leaves(req) )
             => /\ Step(req, Response(req, 200))
                /\ sessions' = sessions
                /\ jobs' = jobs]_vars

\* C12 witness: a stop notification for a source whose sessions are all
\* closed was accepted without closing anything
C12_Witness ==
    \E req \in InFlight, p \in PcIds :
        /\ req.op = "on_publish_done"
        /\ req.phase = "respond"
        /\ req.resp = 200
        /\ req.session = NULL
        /\ pcs[p].stream_key = req.stream_key
        /\ LiveSessions(p) = {}
        /\ \E s \in DOMAIN sessions : sessions[s].pc_id = p

\* C13: worker_service takes the jobs in creation order: when a job goes
\* from PENDING to PROCESSING, no job created before it is still PENDING
C13_ClaimedInCreationOrder ==
    [][\A j \in DOMAIN jobs :
          jobs[j].status = PENDING /\ jobs'[j].status = PROCESSING =>
              \A k \in DOMAIN jobs :
                  jobs[k].created_at < jobs[j].created_at => jobs[k].status /= PENDING]_vars

\* C13 witness: a job is being processed after a job created before it was
\* taken
C13_Witness ==
    \E j, k \in DOMAIN jobs :
        /\ jobs[k].created_at < jobs[j].created_at
        /\ jobs[j].status = PROCESSING
        /\ claimed[j] /= {}
        /\ jobs[k].status \notin {PENDING, PROCESSING}

Finishes(w, j) == w \in claimed[j] /\ w \notin claimed'[j]

\* the calls made in this step
NewCalls == telegram' \ telegram

\* worker w has called the Telegram function kind for job j in the
\* process_clip that this step belongs to
Called(w, j, kind) ==
    \E call \in telegram' : call.worker = w /\ call.job = j /\ call.kind = kind

\* C15: when the file-send of a clip that is not empty fails, the job ends
\* FAILED and a text message to the recipient is attempted
C15_FailedDeliveryIsFailed ==
    [][\A call \in NewCalls :
          ( /\ call.kind = "video"
            /\ ~ call.ok
            /\ worker[call.worker].job.size_bytes > 0 )
          => /\ jobs'[call.job].status = FAILED
             /\ Called(call.worker, call.job, "message")]_vars

\* C16: with AUTO_DELETE_AFTER_SEND on, the clip file of a job that has a
\* terminal status and a recorded clip that is not empty, and that no worker
\* is processing, is not on disk
C16_AutoDeleteAfterEveryOutcome ==
    config.auto_delete =>
        \A j \in DOMAIN jobs :
            ( /\ jobs[j].status \in TerminalStatuses
              /\ jobs[j].size_bytes > 0
              /\ claimed[j] = {} )
            => ~ files[jobs[j].session_id].exists

C18_OversizeIsTooBig ==
    [][\A w \in Workers, j \in DOMAIN jobs :
          ( /\ Finishes(w, j)
            /\ jobs'[j].status /= FAILED
            /\ jobs'[j].size_bytes > LimitBytes )
          => /\ jobs'[j].status = TOO_BIG
             /\ ~ Called(w, j, "video")
             /\ JobUser(j).tg_chat_id /= NULL => Called(w, j, "message")
             /\ ~ config.auto_delete /\ files[jobs[j].session_id].exists =>
                   files'[jobs[j].session_id].exists]_vars

\* C19: a file-send that reports success ends the job SENT with the size of
\* the clip recorded, and a job becomes SENT only in a step whose file-send
\* reported success
C19_SentIffDelivered ==
    [][/\ \A call \in NewCalls :
             call.kind = "video" /\ call.ok =>
                 /\ jobs'[call.job].status = SENT
                 /\ jobs'[call.job].size_bytes = worker[call.worker].job.size_bytes
                 /\ jobs'[call.job].size_bytes \in 0..LimitBytes
                 /\ JobUser(call.job).tg_chat_id /= NULL
       /\ \A j \in DOMAIN jobs :
             jobs'[j].status = SENT /\ jobs[j].status /= SENT =>
                 \E call \in NewCalls :
                     call.job = j /\ call.kind = "video" /\ call.ok]_vars

\* C19 witness: a clip was delivered and its job is SENT
C19_Witness ==
    \E call \in telegram :
        /\ call.kind = "video"
        /\ call.ok
        /\ jobs[call.job].status = SENT
        /\ jobs[call.job].size_bytes \in 0..LimitBytes

\* C20: a process_clip that records SENT, STORED or TOO_BIG has found a clip
\* file that is not empty
C20_NoSuccessWithoutClip ==
    [][\A w \in Workers, j \in DOMAIN jobs :
          Finishes(w, j) /\ jobs'[j].status \in {SENT, STORED, TOO_BIG} =>
              jobs'[j].size_bytes > 0]_vars

\* C21: a worker does not wait for the muxer for ever: it leaves the muxer
\* call, and the job it marked PROCESSING gets a terminal status
C21_HungMuxerIsKilled ==
    /\ \A w \in Workers :
          (worker[w].phase = "ffmpeg") ~> (worker[w].phase /= "ffmpeg")
    /\ \A j \in 1..NumJobs :
          (jobs[j].status = PROCESSING /\ claimed[j] /= {})
              ~> (jobs[j].status \in TerminalStatuses)

\* C22: when a worker stops working on the job at the head of the list it
\* fetched, because process_clip returned or because it raised, the worker
\* goes on with the rest of the list and the job is not left PENDING
C22_ExceptionSkipsNoJob ==
    [][\A w \in Workers :
          worker[w].queue /= <<>> /\ worker'[w].queue /= worker[w].queue =>
              /\ worker'[w].queue = Tail(worker[w].queue)
              /\ jobs'[Head(worker[w].queue)].status /= PENDING]_vars

\* C23: cleanup_old_clips deletes every listed clip file that is older than
\* the retention window, whatever the status of its job, changes no row of
\* clip_jobs, and goes on to the rest of the loop when the file is missing
C23_SweepDeletesOldFiles ==
    [][\A w \in Workers : \A path \in listing[w] :
          path \notin listing'[w] =>
              /\ files[path].exists /\ files[path].old => ~ files'[path].exists
              /\ ~ (files[path].exists /\ files[path].old) =>
                      files'[path] = files[path]
              /\ jobs' = jobs
              /\ worker'[w].phase = "cleanup_old_clips"]_vars

\* a sweep deleted the stored clip of a job that is not SENT, the row still
\* names it, and the sweep of another worker has that file in its listing
C23_Witness ==
    \E w \in Workers : \E path \in listing[w] :
        /\ ~ files[path].exists
        /\ jobs[path].status \in {STORED, TOO_BIG, FAILED}
        /\ jobs[path].result_path /= NULL

\* C24: extract_stream_key returns the first non-empty of name, key and the
\* key of the connection URL: whenever name is not empty the result is name,
\* whatever its length and whatever the other two values are
C24_NameComesFirst ==
    \A req \in InFlight :
        req.op = "extract_stream_key" /\ req.phase = "return" /\ req.name /= NoneStr =>
            req.stream_key = req.name

\* C25: while a worker is inside process_clip for a job it marked PROCESSING
\* (it runs the muxer on the job's output path, or delivers the file the
\* muxer wrote), no step of anyone else writes, overwrites or deletes that
\* file
C25_FileOwnedByProducer ==
    [][\A w \in Workers :
          /\ worker[w].phase \in {"ffmpeg", "send_telegram_video",
                                  "send_telegram_message"}
          /\ worker'[w] = worker[w]
          => LET path == jobs[Head(worker[w].queue)].session_id
             IN  files'[path] = files[path]]_vars

\* C26: _claim_next_job returns every job at most once, on PostgreSQL and on
\* SQLite: a row is out of status 'queued' exactly when one claim returned
\* it, and when a job is returned every job with a smaller id has been
\* returned before or is locked by the claim of another worker that is about
\* to commit it
C26_ClaimNextJobIsAtomic ==
    \A j \in DOMAIN jobs_table :
        /\ claims[j] <= 1
        /\ jobs_table[j].status /= "queued" <=> claims[j] = 1
        /\ claims[j] = 1 =>
              \A i \in 1..(j - 1) :
                  \/ jobs_table[i].status /= "queued"
                  \/ i \in {l.row : l \in locks}

\* two workers claim at the same time: one has locked the first queued row
\* and not committed yet, the other passed over that row and was returned
\* the next one
C26_Witness ==
    \E w1, w2 \in DOMAIN legacy :
        /\ legacy[w1].phase = "pg_commit"
        /\ legacy[w2].phase = "build"
        /\ legacy[w2].job > legacy[w1].job
        /\ claims[legacy[w2].job] = 1

\* C27: job_claim_next of src/api on SQLite returns no queued job to two
\* callers
C27_JobClaimNextReturnsOnce ==
    \A j \in DOMAIN jobs_table : claims[j] <= 1

\* C28: when handle_job returns from a branch that built the file (sent,
\* delivery failed, too large) and auto_delete is on, the file is absent and
\* the row holds the outcome; and a built file disappears only once its
\* job's outcome is recorded
C28_FileRemovedAfterOutcome ==
    [][/\ \A w \in DOMAIN legacy :
             /\ legacy[w].phase /= "idle" /\ legacy'[w].phase = "idle"
             /\ legacy[w].auto_delete
             /\ legacy[w].outcome \in {"sent", "send_failed", "too_large"}
             => /\ ~ outputs'[legacy[w].job].exists
                /\ jobs_table'[legacy[w].job].status \in {"done", "failed"}
                /\ jobs_table'[legacy[w].job].message = legacy[w].outcome
       /\ \A j \in DOMAIN outputs :
             outputs[j].exists /\ ~ outputs'[j].exists =>
                 /\ jobs_table[j].status \in {"done", "failed"}
                 /\ jobs_table[j].output_path = j]_vars

\* handle_job has returned for a job whose file was built and not delivered:
\* its row is failed and names the file, and the file is gone
C28_Witness ==
    \E j \in DOMAIN jobs_table :
        /\ settings.auto_delete
        /\ jobs_table[j].status = "failed"
        /\ jobs_table[j].message \in {"send_failed", "too_large"}
        /\ jobs_table[j].output_path = j
        /\ ~ outputs[j].exists
        /\ \A w \in DOMAIN legacy : legacy[w].job /= j

\* C29: no step removes media segments of a stream key from disk, neither
\* the recorded segments of the finished broadcast nor the segments a new
\* broadcast of the key has written since
C29_MediaSegmentsUnchanged ==
    [][\A k \in DOMAIN hls :
          /\ hls[k].recorded => hls'[k].recorded
          /\ hls[k].live => hls'[k].live]_vars

\* C30: a worker that keeps running comes to the periodic cleanup of
\* main_loop (the test of CLEANUP_INTERVAL and the call of cleanup_old_clips)
\* again and again, whether or not the iterations in between raise
C30_SweepKeepsRunning ==
    \A w \in Workers : []<>(worker[w].phase = "cleanup")

\* C31: a stop notification handled by on_publish_done of src/api enqueues
\* exactly one job, with status 'queued', when save_videos is on at that
\* time, and none when it is off; and nothing else enqueues a job
C31_OneJobPerStopWhenSaving ==
    [][/\ calls'.on_publish_done /= calls.on_publish_done =>
             IF settings.save_videos
             THEN /\ Len(jobs_table') = Len(jobs_table) + 1
                  /\ SubSeq(jobs_table', 1, Len(jobs_table)) = jobs_table
                  /\ jobs_table'[Len(jobs_table')].status = "queued"
             ELSE jobs_table' = jobs_table
       /\ Len(jobs_table') /= Len(jobs_table) =>
             /\ calls'.on_publish_done = calls.on_publish_done + 1
             /\ settings.save_videos]_vars

\* two stop notifications were handled, one while save_videos was off and
\* one while it was on: there is one job, and it is queued
C31_Witness ==
    /\ calls.on_publish_done = 2
    /\ Len(jobs_table) = 1
    /\ jobs_table[1].status = "queued"

\* C39: src/api enqueues a job only for a stream key that is marked live at
\* that time (an accepted on_publish came before, and no stop since)
C39_JobOnlyForLiveStream ==
    [][Len(jobs_table') > Len(jobs_table) =>
          streams[jobs_table'[Len(jobs_table')].stream_key]]_vars

\* C32: in src/obs every PC has at most one session that is open (status
\* live, no ended_at), after any sequence of start and stop notifications
C32_ObsAtMostOneOpenSession ==
    \A p \in DOMAIN pcs :
        Cardinality({s \in OpenSessions(p) : sessions[s].status = LIVE}) <= 1

\* C33: a session has no ended_at exactly when its status is LIVE
C33_EndedAtNullIffLive ==
    \A s \in DOMAIN sessions :
        (sessions[s].ended_at = NULL) <=> (sessions[s].status = LIVE)

\* a source with a session closed as ERROR by a later start, a session closed
\* as DONE by a stop, and a session that is LIVE
C33_Witness ==
    \E a, b, c \in DOMAIN sessions :
        /\ sessions[a].status = ERROR /\ sessions[a].ended_at /= NULL
        /\ sessions[b].status = DONE /\ sessions[b].ended_at /= NULL
        /\ sessions[c].status = LIVE /\ sessions[c].ended_at = NULL

\* C34: a session whose status is DONE or ERROR is never written again: its
\* status, ended_at and note stay as they are in every step
C34_ClosedSessionsAreFinal ==
    [][\A s \in DOMAIN sessions :
          sessions[s].status \in {DONE, ERROR} => sessions'[s] = sessions[s]]_vars

\* C37: no request for a registered source is about to read the live session
\* of a source that has more than one (the read then fails and the request
\* is answered with an error instead of being accepted or rejected)
C37_HooksNeverFailOnSessions ==
    \A req \in InFlight :
        req.phase = "get_active_session" => ~ get_active_session(req.pc_id).raised

\* C35: a job whose status is PENDING or PROCESSING has no result_path and
\* no size_bytes
C35_ResultOnlyWithTerminalStatus ==
    \A j \in DOMAIN jobs :
        jobs[j].status \in {PENDING, PROCESSING} =>
            jobs[j].result_path = NULL /\ jobs[j].size_bytes = NoSize

\* C36: the clip file of every job with a result_path exists on disk
C36_ResultPathFileExists ==
    \A j \in DOMAIN jobs :
        jobs[j].result_path /= NULL => files[jobs[j].result_path].exists

\* C38: when handle_job returns, the status of its job is 'done' or
\* 'failed'; a job becomes 'done' only in a call whose file-send reported
\* success; and a call never changes the status of a job that is 'done'
C38_HandleJobRecordsOutcome ==
    [][/\ \A w \in Workers :
            legacy[w].phase = "cleanup" /\ legacy'[w].phase = "idle" =>
                jobs_table'[legacy[w].job].status \in {"done", "failed"}
       /\ \A j \in DOMAIN jobs_table :
            jobs_table[j].status /= "done" /\ jobs_table'[j].status = "done" =>
                \E w \in Workers : /\ legacy[w].job = j
                                   /\ legacy[w].phase = "job_update"
                                   /\ legacy[w].outcome = "sent"
       /\ \A j \in DOMAIN jobs_table :
            jobs_table[j].status = "done" => jobs_table'[j].status = "done"]_vars

\* every worker has returned from handle_job; one job is 'done', and one is
\* 'failed' by the except branch although its file was built (recording its
\* outcome failed once)
C38_Witness ==
    /\ \A w \in Workers : legacy[w].phase = "idle"
    /\ \E j, k \in DOMAIN jobs_table :
          /\ jobs_table[j].status = "done"
          /\ jobs_table[k].status = "failed"
          /\ jobs_table[k].message = "error"
          /\ outputs[k].exists /\ outputs[k].size = TELEGRAM_LIMIT_BYTES

\* C40: no account has more ACTIVE leases than max_slots, and no PC has more
\* than one lease that is ACTIVE and not expired
C40_SlotsNeverOverAllocated ==
    /\ \A a \in DOMAIN steam_accounts :
          active_lease_count(a) <= steam_accounts[a].max_slots
    /\ \A p \in DOMAIN pcs : Cardinality(ActiveLeasesOfPc(p)) <= 1

====
